---- MODULE Spec2Model ----
(***************************************************************************)
(* Morphological transforms of piface314/ril (src/src/morph.rs):           *)
(* KernelImage and its shape rasterizer, Dilation, Erosion and Stroke.     *)
(*                                                                         *)
(* Numbers.  A u32 is an integer; a negative integer v stands for the      *)
(* wrapped value 2^32 + v that a subtraction leaves when the build has no  *)
(* overflow checks.  An f32 kernel weight w is the integer                 *)
(* floor(w * One), i.e. the weight truncated to 8 fractional bits, and     *)
(* NaNW is the weight NaN.  A pixel of Image<L> is its byte 0..255.        *)
(***************************************************************************)
EXTENDS Integers, Sequences, FiniteSets, TLC

VARIABLES
    overflow_checks, \* build profile: TRUE when u32 overflow panics
    status,          \* "ok", "panic" (fatal failure) or "hang" (no return)
    call,            \* the last constructor, pixel_mut or draw call, with its arguments
    kernel,          \* the KernelImage: [width, height, data]
    writes,          \* number of pixel_mut writes made by the caller
    src,             \* the source Image<L> borrowed by the operator
    op,              \* the Dilation / Erosion value: [kind, position, anchor]
    dst,             \* the destination Image<L>
    stores,          \* the coordinates of the pixel_mut stores of the last draw, in order
    orig,            \* the source of the first draw of a two-step chain
    steps,           \* number of draws completed
    stroke,          \* the Stroke value: [alpha, size, color, threshold]
    stroke_rgba,     \* the stroke buffer of the last Stroke::draw
    underlays,       \* the underlay_pixel calls of the last Stroke::draw
    text,            \* the TextLayout value: [layout, settings, x_anchor, y_anchor]
    tcalls,          \* the calls made on the TextLayout so far, in order
    rendered         \* the span data drawn by the last TextLayout draw, in order

kvars == <<kernel, writes>>
mvars == <<src, op, dst, stores, orig, steps>>
svars == <<stroke, stroke_rgba, underlays>>
tvars == <<text, tcalls, rendered>>
vars == <<overflow_checks, status, call, kvars, mvars, svars, tvars>>

(***************************************************************************)
(* Bounds of the model.                                                    *)
(***************************************************************************)
MaxK == 3        \* largest kernel width / height of the operator runs
MaxEll == 6      \* largest kernel width / height of the rasterizer runs
MaxW == 3        \* largest source width / height
MaxWrites == 1   \* pixel_mut writes a caller makes on one kernel
MaxSize == 3     \* largest stroke size requested
Margin == 3      \* transparent border around the opaque square of a canvas
MaxCalls == 4    \* calls made on one TextLayout

One == 256       \* the weight 1.0
NaNW == 0 - 1    \* the weight NaN

Shapes == {"Rect", "Cross", "Ellipse", "EllipseAa"}

(***************************************************************************)
(* Integer helpers.                                                        *)
(***************************************************************************)
RECURSIVE ISqrtB(_, _, _)
ISqrtB(n, lo, hi) ==
    IF lo >= hi THEN lo
    ELSE LET mid == (lo + hi + 1) \div 2
         IN  IF mid * mid <= n THEN ISqrtB(n, mid, hi) ELSE ISqrtB(n, lo, mid - 1)

\* floor of the square root of n, 0 <= n < 2^31
ISqrt(n) == ISqrtB(n, 0, 46340)

Zeros(n) == [i \in 1..n |-> 0]

(***************************************************************************)
(* KernelImage                                                             *)
(***************************************************************************)
NoKernel == [width |-> 0, height |-> 0, data |-> <<>>]

\* resolve_coordinate: the flat index of (x, y), with no test of x against width
resolve_coordinate(k, x, y) == y * k.width + x

\* Option<T>: None is the empty sequence, Some(v) the sequence of v
None == << >>
Some(v) == <<v>>

\* get_pixel: Vec::get of the resolved index; None when it is past the data
get_pixel(k, x, y) ==
    LET pos == resolve_coordinate(k, x, y)
    IN  IF pos >= 0 /\ pos < Len(k.data) THEN Some(k.data[pos + 1]) ELSE None

\* pixel: the slice index of the resolved position, fatal when it is past
\* the data: [st, v]
pixel(k, x, y) ==
    LET pos == resolve_coordinate(k, x, y)
    IN  IF pos >= 0 /\ pos < Len(k.data) THEN [st |-> "ok", v |-> Some(k.data[pos + 1])]
        ELSE [st |-> "panic", v |-> None]

\* KernelImage::new
KernelNew(w, h) == [width |-> w, height |-> h, data |-> Zeros(w * h)]

(***************************************************************************)
(* The rasterizer works on m = [k |-> kernel, st |-> status]; a step on a  *)
(* machine that has already failed does nothing.                           *)
(***************************************************************************)
\* mutant of PixelWrite: a write past the data appends the weight
PixelWritePush(m, oc, x, y, v) ==
    IF m.st # "ok" THEN m
    ELSE IF oc /\ (x < 0 \/ y < 0) THEN [m EXCEPT !.st = "panic"]
    ELSE LET pos == resolve_coordinate(m.k, x, y)
         IN  IF pos < 0 \/ pos >= Len(m.k.data)
             THEN [m EXCEPT !.k.data = Append(m.k.data, v)]
             ELSE [m EXCEPT !.k.data[pos + 1] = v]

\* *self.pixel_mut(x, y) = v, where x or y may be a wrapped difference
PixelWrite(m, oc, x, y, v) ==
    IF m.st # "ok" THEN m
    ELSE IF oc /\ (x < 0 \/ y < 0) THEN [m EXCEPT !.st = "panic"]
    ELSE LET pos == resolve_coordinate(m.k, x, y)
         IN  IF pos < 0 \/ pos >= Len(m.k.data)
             THEN [m EXCEPT !.st = "panic"]
             ELSE [m EXCEPT !.k.data[pos + 1] = v]

\* mutant of draw_4sym: the point mirrored about both axes is not written
draw_4symThree(m, oc, ox, oy, px, py, x, y, color) ==
    IF m.st # "ok" THEN m
    ELSE IF ox + x >= m.k.width \/ oy + y >= m.k.height THEN m
    ELSE LET m1 == PixelWrite(m, oc, ox + x, oy + y, color)
             m2 == PixelWrite(m1, oc, ox + x, oy - py - y, color)
         IN  PixelWrite(m2, oc, ox - px - x, oy + y, color)

\* draw_4sym
draw_4sym(m, oc, ox, oy, px, py, x, y, color) ==
    IF m.st # "ok" THEN m
    ELSE IF ox + x >= m.k.width \/ oy + y >= m.k.height THEN m
    ELSE LET m1 == PixelWrite(m, oc, ox + x, oy + y, color)
             m2 == PixelWrite(m1, oc, ox + x, oy - py - y, color)
             m3 == PixelWrite(m2, oc, ox - px - x, oy + y, color)
         IN  PixelWrite(m3, oc, ox - px - x, oy - py - y, color)

RECURSIVE FillSpan(_, _, _, _, _, _)
FillSpan(m, oc, k, last, yhi, ylo) ==
    IF k > last \/ m.st # "ok" THEN m
    ELSE FillSpan(PixelWrite(PixelWrite(m, oc, k, yhi, One), oc, k, ylo, One),
                  oc, k + 1, last, yhi, ylo)

\* fill_4sym: the range ox-px-x ..= ox+x is empty when its start has wrapped
fill_4sym(m, oc, ox, oy, px, py, x, y) ==
    IF m.st # "ok" THEN m
    ELSE IF ox - px - x < 0
         THEN IF oc THEN [m EXCEPT !.st = "panic"] ELSE m
         ELSE FillSpan(m, oc, ox - px - x, ox + x, oy + y, oy - py - y)

\* q * sqrt(1 - t^2 / p^2) for the semi-axes p = p2/2, q = q2/2:
\* [nan, fl (its floor), fr (its fractional part as a weight)]
Boundary(p2, q2, t) ==
    LET d == p2 * p2 - 4 * t * t
    IN  IF p2 = 0 \/ d < 0 THEN [nan |-> TRUE, fl |-> 0, fr |-> NaNW]
        ELSE LET v == ISqrt(One * One * q2 * q2 * d) \div (2 * p2)
             IN  [nan |-> FALSE, fl |-> v \div One, fr |-> v % One]

RECURSIVE RoundFrom(_, _, _)
RoundFrom(n, p2, q2) ==
    IF (2 * n + 1) * (2 * n + 1) * (p2 * p2 + q2 * q2) <= p2 * p2 * p2 * p2
    THEN RoundFrom(n + 1, p2, q2) ELSE n

\* (p^2 / sqrt(p^2 + q^2)).round(), or -1 when it is NaN (no x <= NaN)
Quarter(p2, q2) == IF p2 = 0 /\ q2 = 0 THEN 0 - 1 ELSE RoundFrom(0, p2, q2)

\* `f as u32` of a boundary value's floor, plus inc: NaN casts to 0
AsU32(bv, inc) == IF bv.nan THEN 0 ELSE bv.fl + inc

RECURSIVE SweepX(_, _, _, _, _, _, _)
SweepX(m, oc, aa, a2, b2, x, quarter) ==
    IF x > quarter \/ m.st # "ok" THEN m
    ELSE LET ox == m.k.width \div 2
             oy == m.k.height \div 2
             px == 1 - (m.k.width % 2)
             py == 1 - (m.k.height % 2)
             y  == Boundary(a2, b2, x)
             m1 == IF aa THEN draw_4sym(m, oc, ox, oy, px, py, x, AsU32(y, 1), y.fr)
                   ELSE m
             m2 == fill_4sym(m1, oc, ox, oy, px, py, x, AsU32(y, 0))
         IN  SweepX(m2, oc, aa, a2, b2, x + 1, quarter)

RECURSIVE SweepY(_, _, _, _, _, _, _)
SweepY(m, oc, aa, a2, b2, y, quarter) ==
    IF y > quarter \/ m.st # "ok" THEN m
    ELSE LET ox == m.k.width \div 2
             oy == m.k.height \div 2
             px == 1 - (m.k.width % 2)
             py == 1 - (m.k.height % 2)
             x  == Boundary(b2, a2, y)
             m1 == IF aa THEN draw_4sym(m, oc, ox, oy, px, py, AsU32(x, 1), y, x.fr)
                   ELSE m
             m2 == fill_4sym(m1, oc, ox, oy, px, py, AsU32(x, 0), y)
         IN  SweepY(m2, oc, aa, a2, b2, y + 1, quarter)

\* draw_ellipse when width - 2 or height - 2 has wrapped: the semi-axis is
\* 2^31.  A wrapped b makes the first fill index row 2^31 (out of the data
\* when width is odd, one row too far in the second sweep when it is even);
\* a wrapped a alone gives quarter near 2^31, which x never reaches because
\* x + 1.0 == x from 2^24 on, every span of x >= 1 being empty.
WrappedAxes(m) ==
    IF m.k.width = 0 THEN [m EXCEPT !.st = "hang"]
    ELSE IF m.k.height <= 1 THEN [m EXCEPT !.st = "panic"]
    ELSE [m EXCEPT !.st = "hang"]

\* draw_ellipse
draw_ellipse(m, oc, anti_alias) ==
    LET w  == m.k.width
        h  == m.k.height
        a2 == IF anti_alias THEN w - 2 ELSE w     \* twice the semi-axis a
        b2 == IF anti_alias THEN h - 2 ELSE h     \* twice the semi-axis b
    IN  IF a2 < 0 \/ b2 < 0
        THEN IF oc THEN [m EXCEPT !.st = "panic"] ELSE WrappedAxes(m)
        ELSE LET m1 == SweepX(m, oc, anti_alias, a2, b2, 0, Quarter(a2, b2))
             IN  SweepY(m1, oc, anti_alias, a2, b2, 0, Quarter(b2, a2))

\* mutant of CrossCol: the column stops one row short
RECURSIVE CrossColShort(_, _, _, _)
CrossColShort(m, oc, w2, y) ==
    IF y >= m.k.height - 1 THEN m
    ELSE CrossColShort(PixelWrite(m, oc, w2, y, One), oc, w2, y + 1)

RECURSIVE CrossCol(_, _, _, _)
CrossCol(m, oc, w2, y) ==
    IF y >= m.k.height THEN m ELSE CrossCol(PixelWrite(m, oc, w2, y, One), oc, w2, y + 1)

RECURSIVE CrossRow(_, _, _, _)
CrossRow(m, oc, h2, x) ==
    IF x >= m.k.width THEN m ELSE CrossRow(PixelWrite(m, oc, x, h2, One), oc, h2, x + 1)

\* mutant of RectFill: the loop skips the last weight
RectFillShort(m) ==
    [m EXCEPT !.k.data = [i \in 1..Len(m.k.data) |-> IF i < Len(m.k.data) THEN One ELSE 0]]

\* for i in 0..kernel.data.len() { kernel.data[i] = 1.0 }
RectFill(m) == [m EXCEPT !.k.data = [i \in 1..Len(m.k.data) |-> One]]

\* from_shape: [k, st]; k is returned to the caller only when st = "ok"
from_shape(oc, shape, width, height) ==
    LET m == [k |-> KernelNew(width, height), st |-> "ok"]
    IN  CASE shape = "Rect" -> RectFill(m)
          [] shape = "Cross" ->
               CrossRow(CrossCol(m, oc, width \div 2, 0), oc, height \div 2, 0)
          [] shape = "Ellipse" -> draw_ellipse(m, oc, FALSE)
          [] shape = "EllipseAa" -> draw_ellipse(m, oc, TRUE)

(***************************************************************************)
(* The pixel grid and the pixel type L, the collaborators of section 6.    *)
(***************************************************************************)
\* Image::new(width, height, fill)
ImageNew(w, h, fill) == [width |-> w, height |-> h, data |-> [i \in 1..(w * h) |-> fill]]

\* Image::get_pixel: a bounds-checked read
ImageGetPixel(img, x, y) ==
    IF x >= 0 /\ x < img.width /\ y >= 0 /\ y < img.height
    THEN Some(img.data[y * img.width + x + 1]) ELSE None

\* the pixel at (x, y) of an image, for coordinates inside it
At(img, x, y) == img.data[y * img.width + x + 1]

PDefault == 0                 \* L::default(), the neutral minimum
PMaxValue == 255              \* u8::MAX
PNot(p) == PMaxValue - p      \* !p, the complement
PMax(p, q) == IF q > p THEN q ELSE p
PMin(p, q) == IF q < p THEN q ELSE p

\* p * k: the byte scaled by the weight, cast back to a byte (NaN casts to 0)
PScale(p, k) ==
    IF k = NaNW \/ k < 0 THEN 0
    ELSE LET v == (p * k) \div One IN IF v > PMaxValue THEN PMaxValue ELSE v

(***************************************************************************)
(* Dilation and Erosion                                                    *)
(***************************************************************************)
AnchorDen == 4                \* anchors are the fractions n / AnchorDen
DefaultAnchor == <<2, 2>>     \* (0.5, 0.5)

\* mutant of AnchorOffset: the product rounded up instead of truncated
AnchorOffsetCeil(kdim, n) == (kdim * n + AnchorDen - 1) \div AnchorDen

\* (kw as f64 * ax) as u32
AnchorOffset(kdim, n) == (kdim * n) \div AnchorDen

NoOp == [kind |-> "none", position |-> <<0, 0>>, anchor |-> DefaultAnchor]

\* Dilation::new / Erosion::new
OpNew(kind) == [kind |-> kind, position |-> <<0, 0>>, anchor |-> DefaultAnchor]

\* mutant of DilationTap: the reduction of Erosion (min) in place of max
DilationTapMin(m, s, k, ax, ay, x, y, kx, ky) ==
    LET kv == get_pixel(k, kx, ky)
    IN  IF kv = None THEN m
        ELSE IF x + kx - ax < 0 \/ y + ky - ay < 0 THEN m
        ELSE LET p == ImageGetPixel(s, x + kx - ax, y + ky - ay)
             IN  PMin(m, IF p = None THEN PDefault ELSE PScale(p[1], kv[1]))

\* mutant of DilationTap: the tap's value assigned instead of combined by max
DilationTapAssign(m, s, k, ax, ay, x, y, kx, ky) ==
    LET kv == get_pixel(k, kx, ky)
    IN  IF kv = None THEN m
        ELSE IF x + kx - ax < 0 \/ y + ky - ay < 0 THEN m
        ELSE LET p == ImageGetPixel(s, x + kx - ax, y + ky - ay)
             IN  IF p = None THEN PDefault ELSE PScale(p[1], kv[1])

\* mutant of DilationTap: saturating_sub in place of checked_sub
DilationTapSaturating(m, s, k, ax, ay, x, y, kx, ky) ==
    LET kv == get_pixel(k, kx, ky)
        sx == IF x + kx - ax < 0 THEN 0 ELSE x + kx - ax
        sy == IF y + ky - ay < 0 THEN 0 ELSE y + ky - ay
        p  == ImageGetPixel(s, sx, sy)
    IN  IF kv = None THEN m
        ELSE PMax(m, IF p = None THEN PDefault ELSE PScale(p[1], kv[1]))

\* one kernel tap of the closure d of Dilation::draw
DilationTap(m, s, k, ax, ay, x, y, kx, ky) ==
    LET kv == get_pixel(k, kx, ky)
    IN  IF kv = None THEN m
        ELSE IF x + kx - ax < 0 \/ y + ky - ay < 0 THEN m
        ELSE LET p == ImageGetPixel(s, x + kx - ax, y + ky - ay)
             IN  PMax(m, IF p = None THEN PDefault ELSE PScale(p[1], kv[1]))

\* mutant of ErosionTap: the reduction of Dilation (max) left in place
ErosionTapMax(m, s, k, ax, ay, x, y, kx, ky) ==
    LET kv == get_pixel(k, kx, ky)
    IN  IF kv = None THEN m
        ELSE IF ~(kv[1] > 0) THEN m
        ELSE IF x + kx - ax < 0 \/ y + ky - ay < 0 THEN m
        ELSE LET p == ImageGetPixel(s, x + kx - ax, y + ky - ay)
             IN  PMax(m, IF p = None THEN PDefault ELSE PScale(p[1], kv[1]))

\* mutant of ErosionTap: the test `if !(k > 0.0) { continue; }` left out
ErosionTapNoSkip(m, s, k, ax, ay, x, y, kx, ky) ==
    LET kv == get_pixel(k, kx, ky)
    IN  IF kv = None THEN m
        ELSE IF x + kx - ax < 0 \/ y + ky - ay < 0 THEN m
        ELSE LET p == ImageGetPixel(s, x + kx - ax, y + ky - ay)
             IN  PMin(m, IF p = None THEN PDefault ELSE PScale(p[1], kv[1]))

\* one kernel tap of the closure d of Erosion::draw
ErosionTap(m, s, k, ax, ay, x, y, kx, ky) ==
    LET kv == get_pixel(k, kx, ky)
    IN  IF kv = None THEN m
        ELSE IF ~(kv[1] > 0) THEN m
        ELSE IF x + kx - ax < 0 \/ y + ky - ay < 0 THEN m
        ELSE LET p == ImageGetPixel(s, x + kx - ax, y + ky - ay)
             IN  PMin(m, IF p = None THEN PDefault ELSE PScale(p[1], kv[1]))

Tap(kind, m, s, k, ax, ay, x, y, kx, ky) ==
    IF kind = "dilation" THEN DilationTap(m, s, k, ax, ay, x, y, kx, ky)
    ELSE ErosionTap(m, s, k, ax, ay, x, y, kx, ky)

\* the inner loop `for kx in 0..kw { .. }` of row ky; each tap's result r is
\* computed before the next iteration starts
RECURSIVE TapRow(_, _, _, _, _, _, _, _, _, _)
TapRow(kind, m, s, k, ax, ay, x, y, kx, ky) ==
    IF kx >= k.width THEN m
    ELSE LET r == Tap(kind, m, s, k, ax, ay, x, y, kx, ky)
         IN  IF r = m THEN TapRow(kind, m, s, k, ax, ay, x, y, kx + 1, ky)
             ELSE TapRow(kind, r, s, k, ax, ay, x, y, kx + 1, ky)

\* the outer loop `for ky in 0..kh { .. }`
RECURSIVE TapLoop(_, _, _, _, _, _, _, _, _)
TapLoop(kind, m, s, k, ax, ay, x, y, ky) ==
    IF ky >= k.height THEN m
    ELSE LET r == TapRow(kind, m, s, k, ax, ay, x, y, 0, ky)
         IN  IF r = m THEN TapLoop(kind, m, s, k, ax, ay, x, y, ky + 1)
             ELSE TapLoop(kind, r, s, k, ax, ay, x, y, ky + 1)

\* the closure d(x, y)
D(kind, s, k, anchor, x, y) ==
    TapLoop(kind, IF kind = "dilation" THEN PDefault ELSE PNot(PDefault), s, k,
            AnchorOffset(k.width, anchor[1]), AnchorOffset(k.height, anchor[2]), x, y, 0)

\* mutant of DrawLoop: the stored pixel is the max of d(j, i) and the pixel
\* already in the destination
DrawLoopKeepMax(o, s, k, image) ==
    LET x1 == o.position[1]
        y1 == o.position[2]
        Fits(n) == /\ x1 + (n % s.width) < image.width
                   /\ y1 + (n \div s.width) < image.height
        bad == {n \in 0..(s.width * s.height - 1) : ~Fits(n)}
        stop == IF bad = {} THEN s.width * s.height
                ELSE CHOOSE n \in bad : \A e \in bad : n <= e
        Pixel(c) ==
            LET j == ((c - 1) % image.width) - x1
                i == ((c - 1) \div image.width) - y1
            IN  IF /\ j >= 0 /\ j < s.width /\ i >= 0 /\ i < s.height
                   /\ i * s.width + j < stop
                THEN PMax(image.data[c], D(o.kind, s, k, o.anchor, j, i))
                ELSE image.data[c]
    IN  [img |-> [image EXCEPT !.data = [c \in 1..Len(image.data) |-> Pixel(c)]],
         st |-> IF bad = {} THEN "ok" ELSE "panic",
         writes |-> [n \in 1..stop |->
                       <<x1 + ((n - 1) % s.width), y1 + ((n - 1) \div s.width)>>]]

\* the loops over (y, i) and (x, j) of the box: pixel n = i * w + j is written
\* with d(j, i) unless its pixel_mut, or an earlier one, is out of the image,
\* which stops the draw: [img, st, writes], writes being the coordinates
\* stored to, in order
DrawLoop(o, s, k, image) ==
    LET x1 == o.position[1]
        y1 == o.position[2]
        Fits(n) == /\ x1 + (n % s.width) < image.width
                   /\ y1 + (n \div s.width) < image.height
        bad == {n \in 0..(s.width * s.height - 1) : ~Fits(n)}
        stop == IF bad = {} THEN s.width * s.height
                ELSE CHOOSE n \in bad : \A e \in bad : n <= e
        Pixel(c) ==
            LET j == ((c - 1) % image.width) - x1
                i == ((c - 1) \div image.width) - y1
            IN  IF /\ j >= 0 /\ j < s.width /\ i >= 0 /\ i < s.height
                   /\ i * s.width + j < stop
                THEN D(o.kind, s, k, o.anchor, j, i)
                ELSE image.data[c]
    IN  [img |-> [image EXCEPT !.data = [c \in 1..Len(image.data) |-> Pixel(c)]],
         st |-> IF bad = {} THEN "ok" ELSE "panic",
         writes |-> [n \in 1..stop |->
                       <<x1 + ((n - 1) % s.width), y1 + ((n - 1) \div s.width)>>]]

\* Dilation::draw / Erosion::draw into image: [img, st]
MorphDraw(o, s, k, image) == DrawLoop(o, s, k, image)

(***************************************************************************)
(* Stroke                                                                  *)
(***************************************************************************)
NoStroke == [alpha |-> [width |-> 0, height |-> 0, data |-> <<>>], size |-> 0,
             color |-> <<0, 0, 0, 0>>, threshold |-> 0]

\* Image::band(i) of an Image<Rgba>, a pixel being <<r, g, b, a>>
Band(img, i) == [img EXCEPT !.data = [n \in 1..Len(img.data) |-> img.data[n][i + 1]]]

\* Image::map_pixels(f)
MapPixels(img, f(_)) == [img EXCEPT !.data = [n \in 1..Len(img.data) |-> f(img.data[n])]]

\* Stroke::new
StrokeNew(image, size, color) ==
    [alpha |-> Band(image, 3), size |-> IF size > 1 THEN size ELSE 1,
     color |-> color, threshold |-> 0]

\* mutant of Binarize: >= in place of >
BinarizeGe(p, threshold) == IF p >= threshold THEN 255 ELSE 0

\* |p| L(if p.0 > self.threshold { 255 } else { 0 })
Binarize(p, threshold) == IF p > threshold THEN 255 ELSE 0

\* mutant of KSize: + 1 in place of - 1
KSizePlus(size) == size * 2 + 1

\* self.size * 2 - 1
KSize(size) == size * 2 - 1

\* |L(k)| Rgba::new(r, g, b, (a as f32 * k as f32 / u8::MAX as f32) as u8)
ToFill(color, k) == <<color[1], color[2], color[3], (color[4] * k) \div PMaxValue>>

\* mutant of UnderlayLoop: the call made at the transposed coordinate
UnderlayLoopTransposed(buf) ==
    [c \in 1..(buf.width * buf.height) |->
        <<(c - 1) \div buf.width, (c - 1) % buf.width,
          ImageGetPixel(buf, (c - 1) % buf.width, (c - 1) \div buf.width)[1]>>]

\* the calls image.underlay_pixel(x, y, *pixel) of the loops over y and x,
\* in order: call n + 1 is for the pixel n = y * w + x of the buffer
UnderlayLoop(buf) ==
    [c \in 1..(buf.width * buf.height) |->
        <<(c - 1) % buf.width, (c - 1) \div buf.width,
          ImageGetPixel(buf, (c - 1) % buf.width, (c - 1) \div buf.width)[1]>>]

\* Stroke::draw up to the compositing loop: [st, kernel, buf, calls]
StrokeDrawRun(oc, st) ==
    LET LBin(p) == Binarize(p, st.threshold)
        src_alpha == MapPixels(st.alpha, LBin)
        k_size == KSize(st.size)
        kr == from_shape(oc, "EllipseAa", k_size, k_size)
        stroke_alpha == MorphDraw(OpNew("dilation"), src_alpha, kr.k,
                                  ImageNew(st.alpha.width, st.alpha.height, 0))
        LFill(k) == ToFill(st.color, k)
        buf == MapPixels(stroke_alpha.img, LFill)
    IN  IF kr.st # "ok"
        THEN [st |-> kr.st, kernel |-> NoKernel, buf |-> NoKernel, calls |-> << >>]
        ELSE [st |-> stroke_alpha.st, kernel |-> kr.k, buf |-> buf,
              calls |-> UnderlayLoop(buf)]

(***************************************************************************)
(* TextLayout (src/src/text.rs) over the layout engine of fontdue.  The    *)
(* engine is a collaborator: a layout is its settings and the spans        *)
(* appended to it, in order.                                               *)
(***************************************************************************)
\* LayoutSettings::default()
DefaultSettings ==
    [x |-> 0, y |-> 0, max_width |-> None, max_height |-> None,
     horizontal_align |-> "Left", vertical_align |-> "Top",
     line_height |-> 1, wrap_style |-> "Word"]

\* Layout::new
LayoutNew == [settings |-> DefaultSettings, spans |-> << >>]

\* Layout::reset: takes the settings and clears everything appended
LayoutReset(l, settings) == [settings |-> settings, spans |-> << >>]

\* Layout::append
LayoutAppend(l, span) == [l EXCEPT !.spans = Append(@, span)]

\* TextLayout::new
TextLayoutNew ==
    [layout |-> LayoutNew, settings |-> DefaultSettings,
     x_anchor |-> "Left", y_anchor |-> "Top"]

\* mutant of set_settings: the settings stored without resetting the layout
set_settingsKeep(t, settings) ==
    [t EXCEPT !.layout.settings = settings, !.settings = settings]

\* TextLayout::set_settings
set_settings(t, settings) ==
    [t EXCEPT !.layout = LayoutReset(@, settings), !.settings = settings]

with_settings(t, settings) == set_settings(t, settings)
with_position(t, x, y) == set_settings(t, [t.settings EXCEPT !.x = x, !.y = y])
with_anchor(t, x_anchor, y_anchor) == [t EXCEPT !.x_anchor = x_anchor, !.y_anchor = y_anchor]
with_width(t, width) == set_settings(t, [t.settings EXCEPT !.max_width = Some(width)])
with_height(t, height) == set_settings(t, [t.settings EXCEPT !.max_height = Some(height)])
with_wrap(t, wrap) == set_settings(t, [t.settings EXCEPT !.wrap_style = wrap])
with_horizontal_align(t, align) ==
    set_settings(t, [t.settings EXCEPT !.horizontal_align = align])
with_vertical_align(t, align) ==
    set_settings(t, [t.settings EXCEPT !.vertical_align = align])
with_line_height(t, line_height) ==
    set_settings(t, [t.settings EXCEPT !.line_height = line_height])

\* TextLayout::centered
centered(t) ==
    [set_settings(t, [t.settings EXCEPT !.horizontal_align = "Center",
                                        !.vertical_align = "Middle"])
        EXCEPT !.x_anchor = "Center", !.y_anchor = "Center"]

\* TextLayout::push_text: a text span carrying SpanData::Text(fill, overlay)
push_text(t, segment) ==
    [t EXCEPT !.layout =
        LayoutAppend(@, [kind |-> "text", text |-> segment.text, size |-> segment.size,
                         user_data |-> <<"Text", segment.fill, segment.overlay>>])]

\* TextLayout::push_image: a block span carrying SpanData::InlineImg(image)
push_image(t, img) ==
    [t EXCEPT !.layout =
        LayoutAppend(@, [kind |-> "block", text |-> <<img.image.width, img.image.height>>,
                         size |-> img.size,
                         user_data |-> <<"InlineImg", img.image>>])]

\* Draw for TextLayout: the glyphs of the layout, line after line, are drawn
\* by the span data they carry; here one entry for each span laid out
TextDraw(t) == [n \in 1..Len(t.layout.spans) |-> t.layout.spans[n].user_data]

(***************************************************************************)
(* Inputs of the runs.                                                     *)
(***************************************************************************)
NoImage == [width |-> 0, height |-> 0, data |-> <<>>]

Fills == {77}                 \* previous content of a destination
DstSize == MaxW + 1           \* width and height of the large destination
Square == 4                   \* side of the opaque square of a canvas

PixVals == {0, 100, 255}
WVals == {0, 128}             \* weights a caller writes: 0.0 and 0.5
EWVals == WVals \cup {0 - 128}  \* and -0.5, for the kernels of an Erosion
Dims == (1..MaxW) \X (1..MaxW)
KDims == (1..MaxK) \X (1..MaxK)
Positions == {<<0, 0>>, <<1, 2>>}
Anchors == {DefaultAnchor, <<0, 4>>}
Thresholds == {0, 99, 100, 255}
Colors == {<<10, 20, 30, 255>>, <<10, 20, 30, 128>>}

\* a uniform image with at most one pixel of another value
Sources ==
    UNION { {[ImageNew(d[1], d[2], bg) EXCEPT !.data[c] = v] :
               bg \in {0, 255}, c \in 1..(d[1] * d[2]), v \in PixVals} : d \in Dims }

\* every binary image
BinarySources ==
    UNION { {[width |-> d[1], height |-> d[2], data |-> f] :
               f \in [1..(d[1] * d[2]) -> {PDefault, PMaxValue}]} : d \in Dims }

\* an Image<Rgba> of the colour (1, 2, 3) with the alpha band img
WithAlpha(img) == [img EXCEPT !.data = [n \in 1..Len(img.data) |-> <<1, 2, 3, img.data[n]>>]]

\* a fully opaque Square x Square square with m transparent pixels around it
Canvas(m) ==
    LET n == Square + 2 * m
    IN  [width |-> n, height |-> n,
         data |-> [c \in 1..(n * n) |->
                     IF /\ (c - 1) % n >= m /\ (c - 1) % n < m + Square
                        /\ (c - 1) \div n >= m /\ (c - 1) \div n < m + Square
                     THEN 255 ELSE 0]]

References == {WithAlpha(s) : s \in Sources \cup {Canvas(m) : m \in 0..Margin}}

\* text segments, inline images and settings given to a TextLayout
Segments ==
    {[text |-> "ab", size |-> 12, fill |-> 255, overlay |-> "Merge"],
     [text |-> "c", size |-> 20, fill |-> 100, overlay |-> "Replace"]}
InlineImages == {[image |-> ImageNew(2, 1, 255), size |-> 12, align |-> "Middle"]}
SettingsGiven == {[DefaultSettings EXCEPT !.x = 3, !.wrap_style = "Letter"]}

(***************************************************************************)
(* Actions                                                                 *)
(***************************************************************************)
\* let kernel = KernelImage::from_shape(shape, w, h)
KernelFromShape(shape, w, h) ==
    /\ status = "ok" /\ kernel = NoKernel /\ op = NoOp
    /\ LET r == from_shape(overflow_checks, shape, w, h)
       IN  /\ status' = r.st
           /\ kernel' = IF r.st = "ok" THEN r.k ELSE kernel
    /\ call' = <<"from_shape", shape, w, h>>
    /\ UNCHANGED <<overflow_checks, writes, mvars, svars, tvars>>

\* let kernel = KernelImage::new(w, h)
KernelCreate(w, h) ==
    /\ status = "ok" /\ kernel = NoKernel /\ op = NoOp
    /\ kernel' = KernelNew(w, h)
    /\ call' = <<"new", w, h>>
    /\ UNCHANGED <<overflow_checks, status, writes, mvars, svars, tvars>>

\* *kernel.pixel_mut(x, y) = v, while no operator borrows the kernel
KernelPixelMut(x, y, v) ==
    /\ status = "ok" /\ kernel # NoKernel /\ op = NoOp /\ writes < MaxWrites
    /\ LET r == PixelWrite([k |-> kernel, st |-> "ok"], overflow_checks, x, y, v)
       IN  /\ status' = r.st
           /\ kernel' = r.k
    /\ writes' = writes + 1
    /\ call' = <<"pixel_mut", x, y, v>>
    /\ UNCHANGED <<overflow_checks, mvars, svars, tvars>>

\* kernel.get_pixel(x, y): the call records the Option returned
KernelGetPixel(x, y) ==
    /\ status = "ok" /\ kernel # NoKernel
    /\ call' = <<"get_pixel", x, y, get_pixel(kernel, x, y)>>
    /\ UNCHANGED <<overflow_checks, status, kvars, mvars, svars, tvars>>

\* *kernel.pixel(x, y): the call records the weight read, if any
KernelPixel(x, y) ==
    /\ status = "ok" /\ kernel # NoKernel
    /\ LET r == pixel(kernel, x, y)
       IN  /\ status' = r.st
           /\ call' = <<"pixel", x, y, r.v>>
    /\ UNCHANGED <<overflow_checks, kvars, mvars, svars, tvars>>

\* Dilation::new(&s, &kernel) / Erosion::new(&s, &kernel)
OperatorNew(kind, s) ==
    /\ status = "ok" /\ kernel # NoKernel /\ op = NoOp
    /\ op' = OpNew(kind)
    /\ src' = s
    /\ UNCHANGED <<overflow_checks, status, call, kvars, dst, stores, orig, steps, svars, tvars>>

\* with_position
WithPosition(p) ==
    /\ status = "ok" /\ op # NoOp /\ steps = 0 /\ dst = NoImage
    /\ op' = [op EXCEPT !.position = p]
    /\ UNCHANGED <<overflow_checks, status, call, kvars, src, dst, stores, orig, steps, svars, tvars>>

\* with_anchor
WithAnchor(a) ==
    /\ status = "ok" /\ op # NoOp /\ steps = 0 /\ dst = NoImage
    /\ op' = [op EXCEPT !.anchor = a]
    /\ UNCHANGED <<overflow_checks, status, call, kvars, src, dst, stores, orig, steps, svars, tvars>>

\* image.draw(&op) on the destination image
Draw(image) ==
    /\ status = "ok" /\ op # NoOp /\ dst = NoImage
    /\ LET g == MorphDraw(op, src, kernel, image)
       IN  /\ dst' = g.img
           /\ stores' = g.writes
           /\ status' = g.st
    /\ steps' = steps + 1
    /\ call' = <<"draw", op.kind>>
    /\ UNCHANGED <<overflow_checks, kvars, src, op, orig, svars, tvars>>

\* the output of the first draw becomes the source of the dual operator,
\* with the same kernel: closing (dilate, erode) and opening (erode, dilate)
Chain ==
    /\ status = "ok" /\ steps = 1 /\ dst # NoImage
    /\ orig' = src
    /\ src' = dst
    /\ dst' = NoImage
    /\ op' = OpNew(IF op.kind = "dilation" THEN "erosion" ELSE "dilation")
    /\ UNCHANGED <<overflow_checks, status, call, kvars, stores, steps, svars, tvars>>

\* a call of a TextLayout method that leaves the layout as t2
TextCall(name, arg, t2) ==
    /\ status = "ok" /\ Len(tcalls) < MaxCalls
    /\ text' = t2
    /\ tcalls' = Append(tcalls, <<name, arg>>)
    /\ UNCHANGED <<overflow_checks, status, call, kvars, mvars, svars, rendered>>

TextWithSettings(settings) == TextCall("with_settings", settings, with_settings(text, settings))
TextWithPosition(x, y) == TextCall("with_position", <<x, y>>, with_position(text, x, y))
TextWithAnchor(xa, ya) == TextCall("with_anchor", <<xa, ya>>, with_anchor(text, xa, ya))
TextWithWidth(width) == TextCall("with_width", width, with_width(text, width))
TextWithHeight(height) == TextCall("with_height", height, with_height(text, height))
TextWithWrap(wrap) == TextCall("with_wrap", wrap, with_wrap(text, wrap))
TextWithHorizontalAlign(align) ==
    TextCall("with_horizontal_align", align, with_horizontal_align(text, align))
TextWithVerticalAlign(align) ==
    TextCall("with_vertical_align", align, with_vertical_align(text, align))
TextWithLineHeight(lh) == TextCall("with_line_height", lh, with_line_height(text, lh))
TextCentered == TextCall("centered", << >>, centered(text))
TextPushText(segment) == TextCall("push_text", segment, push_text(text, segment))
TextPushImage(img) == TextCall("push_image", img, push_image(text, img))

\* image.draw(&layout)
TextLayoutDraw ==
    /\ status = "ok" /\ Len(tcalls) < MaxCalls
    /\ rendered' = TextDraw(text)
    /\ tcalls' = Append(tcalls, <<"draw", << >>>>)
    /\ UNCHANGED <<overflow_checks, status, call, kvars, mvars, svars, text>>

\* let stroke = Stroke::new(&image, size, color)
StrokeCreate(image, size, color) ==
    /\ status = "ok" /\ stroke = NoStroke
    /\ stroke' = StrokeNew(image, size, color)
    /\ call' = <<"stroke_new", size>>
    /\ UNCHANGED <<overflow_checks, status, kvars, mvars, stroke_rgba, underlays, tvars>>

\* with_threshold
WithThreshold(t) ==
    /\ status = "ok" /\ stroke # NoStroke /\ steps = 0
    /\ stroke' = [stroke EXCEPT !.threshold = t]
    /\ UNCHANGED <<overflow_checks, status, call, kvars, mvars, stroke_rgba, underlays, tvars>>

\* image.draw(&stroke), the destination being at least as large as the reference
StrokeDraw ==
    /\ status = "ok" /\ stroke # NoStroke /\ steps = 0
    /\ LET r == StrokeDrawRun(overflow_checks, stroke)
       IN  /\ status' = r.st
           /\ kernel' = r.kernel
           /\ stroke_rgba' = r.buf
           /\ underlays' = r.calls
    /\ steps' = steps + 1
    /\ call' = <<"stroke_draw">>
    /\ UNCHANGED <<overflow_checks, writes, src, op, dst, stores, orig, stroke, tvars>>

(***************************************************************************)
(* Spec: one Dilation draw, with a kernel the caller builds.               *)
(* SpecErosion: the same with one Erosion draw.                            *)
(***************************************************************************)
Start ==
    /\ status = "ok"
    /\ call = << >>
    /\ kernel = NoKernel
    /\ writes = 0
    /\ src = NoImage
    /\ op = NoOp
    /\ dst = NoImage
    /\ stores = << >>
    /\ orig = NoImage
    /\ steps = 0
    /\ stroke = NoStroke
    /\ stroke_rgba = NoImage
    /\ underlays = << >>
    /\ text = TextLayoutNew
    /\ tcalls = << >>
    /\ rendered = << >>

\* the operators do no u32 arithmetic that overflows within the bounds
Init == overflow_checks = TRUE /\ Start

Next ==
    \/ \E d \in KDims : KernelFromShape("Rect", d[1], d[2])
    \/ \E d \in KDims : KernelCreate(d[1], d[2])
    \/ \E x \in 0..MaxK, y \in 0..(MaxK - 1), v \in WVals : KernelPixelMut(x, y, v)
    \/ \E s \in Sources : OperatorNew("dilation", s)
    \/ \E p \in Positions : WithPosition(p)
    \/ \E a \in Anchors : WithAnchor(a)
    \/ \E f \in Fills : Draw(ImageNew(DstSize, DstSize, f))

Spec == Init /\ [][Next]_vars

NextErosion ==
    \/ \E d \in KDims : KernelFromShape("Rect", d[1], d[2])
    \/ \E d \in KDims : KernelCreate(d[1], d[2])
    \/ \E x \in 0..MaxK, y \in 0..(MaxK - 1), v \in EWVals : KernelPixelMut(x, y, v)
    \/ \E s \in Sources : OperatorNew("erosion", s)
    \/ \E p \in Positions : WithPosition(p)
    \/ \E a \in Anchors : WithAnchor(a)
    \/ \E f \in Fills : Draw(ImageNew(DstSize, DstSize, f))

SpecErosion == Init /\ [][NextErosion]_vars

(***************************************************************************)
(* SpecOC: closing and opening of a binary image, default anchor and       *)
(* position, destination of the source's size.                             *)
(***************************************************************************)
NextOC ==
    \/ \E shape \in {"Rect", "Cross"}, d \in KDims : KernelFromShape(shape, d[1], d[2])
    \/ \E kind \in {"dilation", "erosion"}, s \in BinarySources :
          steps = 0 /\ OperatorNew(kind, s)
    \/ \E f \in Fills : Draw(ImageNew(src.width, src.height, f))
    \/ Chain

SpecOC == Init /\ [][NextOC]_vars

(***************************************************************************)
(* SpecKernel: the shape rasterizer under both build profiles.             *)
(***************************************************************************)
InitBuilds == overflow_checks \in BOOLEAN /\ Start

NextKernel ==
    \/ \E shape \in Shapes, w \in 1..MaxEll, h \in 1..MaxEll : KernelFromShape(shape, w, h)
    \/ \E w \in 1..MaxEll, h \in 1..MaxEll : KernelCreate(w, h)

SpecKernel == InitBuilds /\ [][NextKernel]_vars

(***************************************************************************)
(* SpecStroke: one Stroke::draw under both build profiles.                 *)
(***************************************************************************)
NextStroke ==
    \/ \E image \in References, size \in 0..MaxSize, color \in Colors :
          StrokeCreate(image, size, color)
    \/ \E t \in Thresholds : WithThreshold(t)
    \/ StrokeDraw

SpecStroke == InitBuilds /\ [][NextStroke]_vars

(***************************************************************************)
(* SpecAccess: the accessors of a kernel, before and while an operator     *)
(* borrows it, and the draws of that operator.                             *)
(***************************************************************************)
Coords == (0..MaxK) \X (0..MaxK)
UnitSources == {s \in Sources : s.width = 1 /\ s.height = 1}

NextAccess ==
    \/ \E d \in KDims : KernelFromShape("Rect", d[1], d[2])
    \/ \E d \in KDims : KernelCreate(d[1], d[2])
    \/ \E c \in Coords, v \in WVals : KernelPixelMut(c[1], c[2], v)
    \/ \E c \in Coords : KernelGetPixel(c[1], c[2])
    \/ \E c \in Coords : KernelPixel(c[1], c[2])
    \/ \E kind \in {"dilation", "erosion"}, s \in UnitSources : OperatorNew(kind, s)
    \/ \E f \in Fills : Draw(ImageNew(src.width, src.height, f))

SpecAccess == Init /\ [][NextAccess]_vars

(***************************************************************************)
(* SpecOrder: one draw of either operator over a source 2 pixels wide,     *)
(* with a kernel the caller builds.                                        *)
(***************************************************************************)
WideSources == {s \in Sources : s.width = 2}

NextOrder ==
    \/ \E d \in KDims : KernelFromShape("Rect", d[1], d[2])
    \/ \E d \in KDims : KernelCreate(d[1], d[2])
    \/ \E x \in 0..MaxK, y \in 0..(MaxK - 1), v \in WVals : KernelPixelMut(x, y, v)
    \/ \E kind \in {"dilation", "erosion"}, s \in WideSources : OperatorNew(kind, s)
    \/ \E a \in Anchors : WithAnchor(a)
    \/ \E f \in Fills : Draw(ImageNew(DstSize, DstSize, f))

SpecOrder == Init /\ [][NextOrder]_vars

(***************************************************************************)
(* SpecDegenerate: the constructors with dimensions from 0, under both     *)
(* build profiles.                                                         *)
(***************************************************************************)
NextDegenerate ==
    \/ \E shape \in Shapes, w \in 0..MaxEll, h \in 0..MaxEll : KernelFromShape(shape, w, h)
    \/ \E w \in 0..MaxEll, h \in 0..MaxEll : KernelCreate(w, h)

SpecDegenerate == InitBuilds /\ [][NextDegenerate]_vars

(***************************************************************************)
(* SpecFrame: one draw of either operator at a position of a destination   *)
(* with previous content.                                                  *)
(***************************************************************************)
PrevFills == Fills \cup {200}

NextFrame ==
    \/ \E d \in KDims : KernelFromShape("Rect", d[1], d[2])
    \/ \E d \in KDims : KernelCreate(d[1], d[2])
    \/ \E x \in 0..MaxK, y \in 0..(MaxK - 1), v \in WVals : KernelPixelMut(x, y, v)
    \/ \E kind \in {"dilation", "erosion"}, s \in WideSources : OperatorNew(kind, s)
    \/ \E p \in Positions : WithPosition(p)
    \/ \E f \in PrevFills : Draw(ImageNew(DstSize, DstSize, f))

SpecFrame == Init /\ [][NextFrame]_vars

(***************************************************************************)
(* SpecText: the calls a caller makes on one TextLayout, in any order.     *)
(***************************************************************************)
NextText ==
    \/ \E settings \in SettingsGiven : TextWithSettings(settings)
    \/ TextWithPosition(5, 7)
    \/ TextWithAnchor("Right", "Bottom")
    \/ TextWithWidth(50)
    \/ TextWithHeight(20)
    \/ TextWithWrap("Letter")
    \/ TextWithHorizontalAlign("Right")
    \/ TextWithVerticalAlign("Bottom")
    \/ TextWithLineHeight(2)
    \/ TextCentered
    \/ \E segment \in Segments : TextPushText(segment)
    \/ \E img \in InlineImages : TextPushImage(img)
    \/ TextLayoutDraw

SpecText == Init /\ [][NextText]_vars

(***************************************************************************)
(* SpecShapes: one Dilation draw with an odd-sized kernel of any shape.    *)
(***************************************************************************)
OddDims == {d \in (1..MaxEll) \X (1..MaxEll) : d[1] % 2 = 1 /\ d[2] % 2 = 1}

NextShapes ==
    \/ \E shape \in Shapes, d \in OddDims : KernelFromShape(shape, d[1], d[2])
    \/ \E s \in Sources : OperatorNew("dilation", s)
    \/ \E p \in Positions : WithPosition(p)
    \/ \E f \in Fills : Draw(ImageNew(DstSize, DstSize, f))

SpecShapes == Init /\ [][NextShapes]_vars

(***************************************************************************)
(* Properties.                                                             *)
(***************************************************************************)
SetMax(S) == CHOOSE m \in S : \A e \in S : e <= m
SetMin(S) == CHOOSE m \in S : \A e \in S : m <= e

\* the weight of the kernel cell (kx, ky), 0 <= kx < width, 0 <= ky < height
KAt(k, kx, ky) == k.data[ky * k.width + kx + 1]

Cells(w, h) == (0..(w - 1)) \X (0..(h - 1))

\* a draw of the given kind has completed as the first draw of the run
Drawn(kind) ==
    /\ status = "ok" /\ steps = 1 /\ orig = NoImage /\ dst # NoImage
    /\ call = <<"draw", kind>>

\* floor(kernel_dims * anchor_fraction) of the operator
OffX == (kernel.width * op.anchor[1]) \div AnchorDen
OffY == (kernel.height * op.anchor[2]) \div AnchorDen

\* the kernel cells whose sample coordinate for the relative pixel (j, i)
\* is non-negative and inside the source
InRangeTaps(j, i) ==
    {t \in Cells(kernel.width, kernel.height) :
        /\ j + t[1] - OffX >= 0 /\ j + t[1] - OffX < src.width
        /\ i + t[2] - OffY >= 0 /\ i + t[2] - OffY < src.height}

\* source[sx, sy] * weight of the tap t for the relative pixel (j, i)
TapValue(j, i, t) ==
    PScale(At(src, j + t[1] - OffX, i + t[2] - OffY), KAt(kernel, t[1], t[2]))

\* the destination pixel written for the relative pixel (j, i)
Written(j, i) == At(dst, op.position[1] + j, op.position[2] + i)

\* C1 (as claimed): in Erosion::draw a positive-weight tap whose sample
\* coordinate is outside the source, on any side, never lowers the result:
\* the pixel written is at least the minimum of the neutral maximum and the
\* in-range positive-weight taps.
C1_OutOfRangeTapNeverLowers ==
    Drawn("erosion") =>
        \A c \in Cells(src.width, src.height) :
            Written(c[1], c[2]) >=
                SetMin({PNot(PDefault)} \cup
                       {TapValue(c[1], c[2], t) :
                          t \in {u \in InRangeTaps(c[1], c[2]) :
                                   KAt(kernel, u[1], u[2]) > 0}})

\* C2 (as claimed): eroding a uniformly maximum source with a fully-1.0
\* kernel, default anchor, position (0,0), into a destination of the
\* source's size leaves every pixel at the maximum.
C2_ErodeUniformMaxIsIdentity ==
    ( /\ Drawn("erosion")
      /\ \A n \in 1..Len(src.data) : src.data[n] = PMaxValue
      /\ \A n \in 1..Len(kernel.data) : kernel.data[n] = One
      /\ op.position = <<0, 0>> /\ op.anchor = DefaultAnchor
      /\ dst.width = src.width /\ dst.height = src.height )
    => dst = src

\* C3: after Dilation::draw every destination pixel of the box is the maximum,
\* starting from the neutral minimum, of source[sx,sy] * weight over the taps
\* whose sample coordinate is non-negative and inside the source.
C3_DilationIsMaxOverInRangeTaps ==
    Drawn("dilation") =>
        \A c \in Cells(src.width, src.height) :
            Written(c[1], c[2]) =
                SetMax({PDefault} \cup
                       {TapValue(c[1], c[2], t) : t \in InRangeTaps(c[1], c[2])})

\* C3 witness: a dilation placed off the origin with a non-default anchor
\* that wrote a scaled value, neither neutral nor maximal
C3_Witness ==
    /\ Drawn("dilation")
    /\ op.position = <<1, 2>> /\ op.anchor = <<0, 4>>
    /\ \E c \in Cells(src.width, src.height) :
          /\ Written(c[1], c[2]) \notin {PDefault, PMaxValue}
          /\ InRangeTaps(c[1], c[2]) # Cells(kernel.width, kernel.height)

\* the source holds one maximum pixel at its centre and the neutral value elsewhere
Centred(img) ==
    /\ img.width % 2 = 1 /\ img.height % 2 = 1
    /\ \A c \in Cells(img.width, img.height) :
          At(img, c[1], c[2]) =
              IF c = <<img.width \div 2, img.height \div 2>> THEN PMaxValue ELSE PDefault

InKernel(kx, ky) == kx >= 0 /\ kx < kernel.width /\ ky >= 0 /\ ky < kernel.height

\* C4 (as claimed): dilating a centred maximum pixel writes, at c + d, the
\* maximum scaled by the weight K[anchor_offset + d], and the neutral value
\* where that cell does not exist.
C4_ImpulseReproducesKernel ==
    (Drawn("dilation") /\ Centred(src)) =>
        \A c \in Cells(src.width, src.height) :
            LET kx == OffX + (c[1] - src.width \div 2)
                ky == OffY + (c[2] - src.height \div 2)
            IN  Written(c[1], c[2]) =
                    IF InKernel(kx, ky) THEN PScale(PMaxValue, KAt(kernel, kx, ky))
                    ELSE PDefault

\* C4 (amended): dilating a centred maximum pixel writes, at c + d, the
\* maximum scaled by the weight K[anchor_offset - d], the kernel pattern
\* reflected through the anchor cell, and the neutral value where that cell
\* does not exist.
C4_ImpulseReproducesReflectedKernel ==
    (Drawn("dilation") /\ Centred(src)) =>
        \A c \in Cells(src.width, src.height) :
            LET kx == OffX - (c[1] - src.width \div 2)
                ky == OffY - (c[2] - src.height \div 2)
            IN  Written(c[1], c[2]) =
                    IF InKernel(kx, ky) THEN PScale(PMaxValue, KAt(kernel, kx, ky))
                    ELSE PDefault

\* C4 witness: a centred 3x3 impulse dilated with a kernel that differs from
\* its reflection through the anchor cell, leaving a scaled weight off centre
C4_Witness ==
    /\ Drawn("dilation") /\ Centred(src)
    /\ src.width = 3 /\ src.height = 3
    /\ \E dx \in {0 - 1, 1}, dy \in {0 - 1, 0, 1} :
          /\ InKernel(OffX + dx, OffY + dy) /\ InKernel(OffX - dx, OffY - dy)
          /\ KAt(kernel, OffX + dx, OffY + dy) # KAt(kernel, OffX - dx, OffY - dy)
          /\ Written(1 + dx, 1 + dy) \notin {PDefault, PMaxValue}

\* the second draw of a chain has completed with the operator of this kind
Chained(kind) ==
    /\ status = "ok" /\ steps = 2 /\ dst # NoImage
    /\ call = <<"draw", kind>>

\* C5 (as claimed): after closing (dilate, then erode with the same kernel)
\* every pixel that was maximum in the source is still maximum.
C5_ClosingNeverShrinks ==
    Chained("erosion") =>
        \A n \in 1..Len(orig.data) : orig.data[n] = PMaxValue => dst.data[n] = PMaxValue

\* C6 (as claimed): after opening (erode, then dilate with the same kernel)
\* every pixel that was neutral in the source is still neutral.
C6_OpeningNeverGrows ==
    Chained("dilation") =>
        \A n \in 1..Len(orig.data) : orig.data[n] = PDefault => dst.data[n] = PDefault

\* C6 (amended): after opening with a Rect or Cross kernel of odd width and
\* odd height every pixel that was neutral in the source is still neutral.
C6_OpeningOddKernelNeverGrows ==
    (Chained("dilation") /\ kernel.width % 2 = 1 /\ kernel.height % 2 = 1) =>
        \A n \in 1..Len(orig.data) : orig.data[n] = PDefault => dst.data[n] = PDefault

\* C6 witness: an opening with a kernel 3 wide that kept a maximum pixel of a
\* source holding neutral pixels too
C6_Witness ==
    /\ Chained("dilation") /\ kernel.width = 3 /\ kernel.height % 2 = 1
    /\ \E n \in 1..Len(orig.data) : orig.data[n] = PDefault
    /\ \E n \in 1..Len(dst.data) : dst.data[n] = PMaxValue

\* C7 (as claimed): from_shape with Ellipse or EllipseAa and positive
\* dimensions completes without a fatal failure.
C7_EllipseAlwaysCompletes ==
    (Len(call) = 4 /\ call[1] = "from_shape" /\ call[2] \in {"Ellipse", "EllipseAa"})
    => status = "ok"

\* C8 (as claimed): Stroke::draw of a Stroke built with any requested size
\* builds its (2*size-1) x (2*size-1) kernel and runs to completion.
C8_StrokeDrawCompletes ==
    call = <<"stroke_draw">> =>
        /\ status = "ok"
        /\ kernel.width = 2 * stroke.size - 1 /\ kernel.height = 2 * stroke.size - 1

\* the distance of x beyond the side [lo, hi] of the square
Beyond(x, lo, hi) == IF x < lo THEN lo - x ELSE IF x > hi THEN x - hi ELSE 0

\* the stroke scenario: an opaque 4x4 square on a canvas, size 3, threshold 0
Scenario(m) ==
    /\ call = <<"stroke_draw">> /\ status = "ok"
    /\ stroke.alpha = Canvas(m) /\ stroke.size = 3 /\ stroke.threshold = 0

Mask(x, y) == IF At(stroke.alpha, x, y) > stroke.threshold THEN 255 ELSE 0

\* the dilation of the mask at (x, y) by the kernel k, default anchor
Coverage(k, x, y) ==
    SetMax({0} \cup
           {PScale(Mask(x + t[1] - k.width \div 2, y + t[2] - k.height \div 2),
                   KAt(k, t[1], t[2])) :
              t \in {u \in Cells(k.width, k.height) :
                       /\ x + u[1] - k.width \div 2 >= 0
                       /\ x + u[1] - k.width \div 2 < stroke.alpha.width
                       /\ y + u[2] - k.height \div 2 >= 0
                       /\ y + u[2] - k.height \div 2 < stroke.alpha.height}})

\* C10: the stroke buffer holds at each pixel (r, g, b, a*coverage/255
\* truncated), coverage being the dilation of the thresholded mask by the
\* anti-aliased ellipse kernel; with threshold 255 every alpha is 0.
C10_StrokeBufferIsFillTimesCoverage ==
    (call = <<"stroke_draw">> /\ status = "ok") =>
        LET k == from_shape(overflow_checks, "EllipseAa",
                            2 * stroke.size - 1, 2 * stroke.size - 1).k
        IN  /\ stroke_rgba.width = stroke.alpha.width
            /\ stroke_rgba.height = stroke.alpha.height
            /\ \A c \in Cells(stroke.alpha.width, stroke.alpha.height) :
                  At(stroke_rgba, c[1], c[2]) =
                      <<stroke.color[1], stroke.color[2], stroke.color[3],
                        (stroke.color[4] * Coverage(k, c[1], c[2])) \div 255>>
            /\ stroke.threshold = 255 =>
                  \A n \in 1..Len(stroke_rgba.data) : stroke_rgba.data[n][4] = 0

\* C10 witness: a draw with threshold 100 over an alpha holding a sample equal
\* to the threshold, whose buffer pixel there is partly covered
C10_Witness ==
    /\ call = <<"stroke_draw">> /\ status = "ok"
    /\ stroke.threshold = 100
    /\ \E n \in 1..Len(stroke.alpha.data) :
          /\ stroke.alpha.data[n] = 100
          /\ stroke_rgba.data[n][4] \notin {0, stroke.color[4]}

\* C11: a completed Stroke::draw reaches the destination only through its
\* underlay_pixel calls: there are exactly w * h of them, one for every
\* coordinate of the w x h stroke buffer and none for a coordinate outside
\* [0,w) x [0,h) of the reference, each made at the buffer coordinate with
\* the buffer pixel of that coordinate.
C11_StrokeDrawOnlyUnderlays ==
    (call = <<"stroke_draw">> /\ status = "ok") =>
        LET w == stroke.alpha.width
            h == stroke.alpha.height
        IN  /\ Len(underlays) = w * h
            /\ \A n \in 1..Len(underlays) :
                  /\ underlays[n][1] \in 0..(w - 1)
                  /\ underlays[n][2] \in 0..(h - 1)
                  /\ underlays[n][3] = At(stroke_rgba, underlays[n][1], underlays[n][2])
            /\ \A c \in Cells(w, h) :
                  Cardinality({n \in 1..Len(underlays) :
                                 underlays[n][1] = c[1] /\ underlays[n][2] = c[2]}) = 1

\* C11 witness: a completed draw over a reference 2 wide and 3 high, whose
\* last call is made at (1, 2) with a pixel the stroke covers
C11_Witness ==
    /\ call = <<"stroke_draw">> /\ status = "ok"
    /\ stroke.alpha.width = 2 /\ stroke.alpha.height = 3
    /\ Len(underlays) = 6
    /\ underlays[6][1] = 1 /\ underlays[6][2] = 2 /\ underlays[6][3][4] > 0

\* C12 (as claimed): get_pixel(x, y) returns None, and pixel(x, y) and
\* pixel_mut(x, y) fail fatally, exactly when x >= width or y >= height.
C12_AccessorsCheckBothCoordinates ==
    (Len(call) >= 3 /\ call[1] \in {"get_pixel", "pixel", "pixel_mut"}) =>
        LET out == call[2] >= kernel.width \/ call[3] >= kernel.height
        IN  /\ call[1] = "get_pixel" => (call[4] = None <=> out)
            /\ call[1] \in {"pixel", "pixel_mut"} => (status = "panic" <=> out)

\* the f32 comparison a == b of two weights: NaN equals nothing
WEq(a, b) == a # NaNW /\ b # NaNW /\ a = b

\* from_shape(shape, w, h) has returned a kernel
Built(shape, w, h) == call = <<"from_shape", shape, w, h>> /\ status = "ok"

\* C13: for odd w and h the kernel returned by from_shape(Ellipse, w, h) and
\* by from_shape(EllipseAa, w, h) is mirror-symmetric about both axes:
\* weight(x, y) == weight(w-1-x, y) == weight(x, h-1-y) for every cell.
C13_OddEllipseIsSymmetric ==
    \A shape \in {"Ellipse", "EllipseAa"}, w \in 1..MaxEll, h \in 1..MaxEll :
        (Built(shape, w, h) /\ w % 2 = 1 /\ h % 2 = 1) =>
            \A c \in Cells(w, h) :
                /\ WEq(KAt(kernel, c[1], c[2]), KAt(kernel, w - 1 - c[1], c[2]))
                /\ WEq(KAt(kernel, c[1], c[2]), KAt(kernel, c[1], h - 1 - c[2]))

\* C13 witness: the anti-aliased 5 x 3 ellipse, with a partial weight on its
\* boundary and a full weight at its centre
C13_Witness ==
    /\ Built("EllipseAa", 5, 3)
    /\ KAt(kernel, 2, 1) = One
    /\ \E c \in Cells(5, 3) : KAt(kernel, c[1], c[2]) \notin {0, One, NaNW}

\* C14: for positive w and h, in the kernel from_shape(Cross, w, h) the cell
\* (x, y) has weight 1.0 if y = h/2 or x = w/2 (integer division) and weight
\* 0.0 otherwise, and the construction does not fail.
C14_CrossIsRowAndColumn ==
    \A w \in 1..MaxEll, h \in 1..MaxEll :
        call = <<"from_shape", "Cross", w, h>> =>
            /\ status = "ok"
            /\ kernel.width = w /\ kernel.height = h /\ Len(kernel.data) = w * h
            /\ \A c \in Cells(w, h) :
                  KAt(kernel, c[1], c[2]) =
                      IF c[2] = h \div 2 \/ c[1] = w \div 2 THEN One ELSE 0

\* C14 witness: the 4 x 3 cross, with its column at x = 2 and row at y = 1
C14_Witness ==
    /\ Built("Cross", 4, 3)
    /\ KAt(kernel, 2, 0) = One /\ KAt(kernel, 0, 1) = One /\ KAt(kernel, 2, 2) = One
    /\ KAt(kernel, 0, 0) = 0 /\ KAt(kernel, 1, 2) = 0

\* C15: for positive w and h, from_shape(Rect, w, h) returns a kernel of
\* width w and height h with exactly w * h weights, every one equal to 1.0.
C15_RectIsAllOnes ==
    \A w \in 1..MaxEll, h \in 1..MaxEll :
        call = <<"from_shape", "Rect", w, h>> =>
            /\ status = "ok"
            /\ kernel.width = w /\ kernel.height = h /\ Len(kernel.data) = w * h
            /\ \A n \in 1..Len(kernel.data) : kernel.data[n] = One

\* C15 witness: from_shape(Rect, 3, 3) with its 9 weights of 1.0
C15_Witness ==
    /\ Built("Rect", 3, 3)
    /\ kernel.data = <<One, One, One, One, One, One, One, One, One>>

\* C16: every step of a run (new, from_shape, pixel_mut, get_pixel, pixel,
\* the construction of an operator that borrows the kernel, and its draw)
\* leaves the kernel with data.len() = width * height, and leaves the width
\* and height of a constructed kernel unchanged.
C16_KernelShapeIsInvariant ==
    [][/\ Len(kernel'.data) = kernel'.width * kernel'.height
       /\ kernel # NoKernel =>
             (kernel'.width = kernel.width /\ kernel'.height = kernel.height)]_vars

\* C16 witness: a 2 x 3 kernel that was written through pixel_mut, borrowed
\* by an operator that drew, and read afterwards
C16_Witness ==
    /\ status = "ok" /\ writes = 1 /\ steps = 1
    /\ Len(call) = 4 /\ call[1] = "get_pixel"
    /\ kernel.width = 2 /\ kernel.height = 3 /\ Len(kernel.data) = 6
    /\ \E n \in 1..6 : kernel.data[n] = 128

\* the taps of the relative pixel (j, i) that Erosion::draw combines: weight
\* strictly greater than zero, sample coordinate not negative
PositiveTaps(j, i) ==
    {t \in Cells(kernel.width, kernel.height) :
        /\ KAt(kernel, t[1], t[2]) > 0
        /\ j + t[1] - OffX >= 0 /\ i + t[2] - OffY >= 0}

\* what a combined tap contributes: source * weight, or the default when the
\* sample lies past the right or bottom edge of the source
Sampled(j, i, t) ==
    IF t \in InRangeTaps(j, i) THEN TapValue(j, i, t) ELSE PDefault

\* C17: Erosion::draw writes at each pixel of the box the minimum, starting
\* from the neutral maximum, over exactly the taps whose weight is strictly
\* greater than zero; taps of weight <= 0 change nothing, so a kernel without
\* a positive weight leaves every pixel of the box at the neutral maximum.
C17_ErosionIsMinOverPositiveTaps ==
    Drawn("erosion") =>
        /\ \A c \in Cells(src.width, src.height) :
              Written(c[1], c[2]) =
                  SetMin({PNot(PDefault)} \cup
                         {Sampled(c[1], c[2], t) : t \in PositiveTaps(c[1], c[2])})
        /\ (\A n \in 1..Len(kernel.data) : kernel.data[n] <= 0) =>
              \A c \in Cells(src.width, src.height) : Written(c[1], c[2]) = PNot(PDefault)

\* C17 witness: an erosion with a kernel holding a negative and a full
\* weight, over a source with a neutral-minimum pixel, that wrote a value
\* strictly between the neutral minimum and maximum
C17_Witness ==
    /\ Drawn("erosion")
    /\ \E n \in 1..Len(kernel.data) : kernel.data[n] < 0
    /\ \E n \in 1..Len(kernel.data) : kernel.data[n] = One
    /\ \E n \in 1..Len(src.data) : src.data[n] = PDefault
    /\ \E c \in Cells(src.width, src.height) :
          Written(c[1], c[2]) \notin {PDefault, PNot(PDefault)}

(***************************************************************************)
(* The draw with its loops run in a given order.  An order of n items is a *)
(* sequence of the indices 0..n-1; the index of the item (x, y) of a grid  *)
(* w wide is y * w + x.                                                    *)
(***************************************************************************)
PermMax == 3     \* grids of at most PermMax items are visited in every order

RowMajor(w, h) == [c \in 1..(w * h) |-> c - 1]
Reversed(w, h) == [c \in 1..(w * h) |-> w * h - c]
ColMajor(w, h) == [c \in 1..(w * h) |-> ((c - 1) % h) * w + ((c - 1) \div h)]
Rotated(w, h) == [c \in 1..(w * h) |-> c % (w * h)]
Perms(n) == {f \in [1..n -> 0..(n - 1)] : \A a, b \in 1..n : a # b => f[a] # f[b]}

Orders(w, h) ==
    {RowMajor(w, h), Reversed(w, h), ColMajor(w, h), Rotated(w, h)}
        \cup (IF w * h <= PermMax THEN Perms(w * h) ELSE {})

\* the closure d(x, y) with the kernel taps visited in the order torder
RECURSIVE TapsInOrder(_, _, _, _, _, _, _, _, _, _)
TapsInOrder(kind, m, s, k, ax, ay, x, y, torder, n) ==
    IF n > Len(torder) THEN m
    ELSE LET r == Tap(kind, m, s, k, ax, ay, x, y,
                      torder[n] % k.width, torder[n] \div k.width)
         IN  IF r = m THEN TapsInOrder(kind, m, s, k, ax, ay, x, y, torder, n + 1)
             ELSE TapsInOrder(kind, r, s, k, ax, ay, x, y, torder, n + 1)

\* the draw with the pixels of the box visited in the order porder
RECURSIVE DrawInOrder(_, _, _, _, _, _, _)
DrawInOrder(o, s, k, image, porder, torder, n) ==
    IF n > Len(porder) THEN image
    ELSE LET j == porder[n] % s.width
             i == porder[n] \div s.width
             v == TapsInOrder(o.kind,
                              IF o.kind = "dilation" THEN PDefault ELSE PNot(PDefault), s, k,
                              AnchorOffset(k.width, o.anchor[1]),
                              AnchorOffset(k.height, o.anchor[2]), j, i, torder, 1)
             pos == (o.position[2] + i) * image.width + o.position[1] + j + 1
         IN  DrawInOrder(o, s, k, [image EXCEPT !.data[pos] = v], porder, torder, n + 1)

\* C18: the image a completed Dilation::draw or Erosion::draw leaves is the
\* image obtained by visiting the kernel taps of each pixel, and the pixels
\* of the box, in any other order.
C18_DrawIsOrderIndependent ==
    \A kind \in {"dilation", "erosion"} :
        Drawn(kind) =>
            \E f \in Fills :
                \A torder \in Orders(kernel.width, kernel.height),
                   porder \in Orders(src.width, src.height) :
                    DrawInOrder(op, src, kernel, ImageNew(dst.width, dst.height, f),
                                porder, torder, 1) = dst

\* C18 witness: a draw with a 3-tap kernel of two different positive weights
\* over a source of two different non-zero pixels, where the order of the
\* taps decides which product is met first
C18_Witness ==
    /\ \E kind \in {"dilation", "erosion"} : Drawn(kind)
    /\ Len(kernel.data) = 3
    /\ \E a, b \in 1..3 : kernel.data[a] = One /\ kernel.data[b] = 128
    /\ \E a, b \in 1..Len(src.data) : src.data[a] = 100 /\ src.data[b] = 255

\* C19 (as claimed): a call of KernelImage::new or KernelImage::from_shape
\* with a zero width or a zero height fails fatally and returns no kernel.
C19_ZeroDimensionIsFatal ==
    (/\ Len(call) >= 3 /\ call[1] \in {"new", "from_shape"}
     /\ (call[Len(call) - 1] = 0 \/ call[Len(call)] = 0))
    => status = "panic"

\* C20 (as claimed): for every anchor in [0,1] x [0,1], the value 1.0
\* included, the anchor offset used by a draw is the index of a kernel cell,
\* 0 <= offset_x < kernel_width and 0 <= offset_y < kernel_height, and the
\* default anchor gives (kernel_width / 2, kernel_height / 2).
C20_AnchorOffsetIsAKernelCell ==
    Drawn("dilation") =>
        LET offset_x == AnchorOffset(kernel.width, op.anchor[1])
            offset_y == AnchorOffset(kernel.height, op.anchor[2])
        IN  /\ offset_x >= 0 /\ offset_x < kernel.width
            /\ offset_y >= 0 /\ offset_y < kernel.height
            /\ op.anchor = DefaultAnchor =>
                  (offset_x = kernel.width \div 2 /\ offset_y = kernel.height \div 2)

\* the destination coordinate (x, y) lies in the box [position, position + source dimensions)
InBox(x, y) ==
    /\ x >= op.position[1] /\ x < op.position[1] + src.width
    /\ y >= op.position[2] /\ y < op.position[2] + src.height

\* C21: a completed Dilation::draw or Erosion::draw stores to each pixel of
\* the box [position, position + source dimensions) exactly once and to no
\* other pixel; the source, the kernel and the operator are unchanged, the
\* destination outside the box keeps its previous content, and the pixel at
\* position + (j, i) is d(j, i), a value of the source, kernel, anchor and
\* (j, i) alone.
C21_DrawFrame ==
    [][(steps' = steps + 1 /\ status' = "ok" /\ call' = <<"draw", op.kind>>) =>
          /\ src' = src /\ kernel' = kernel /\ op' = op
          /\ \A n \in 1..Len(stores') : InBox(stores'[n][1], stores'[n][2])
          /\ \A c \in Cells(dst'.width, dst'.height) :
                InBox(c[1], c[2]) =>
                    Cardinality({n \in 1..Len(stores') : stores'[n] = c}) = 1
          /\ \E f \in PrevFills :
                \A c \in Cells(dst'.width, dst'.height) :
                    At(dst', c[1], c[2]) =
                        IF InBox(c[1], c[2])
                        THEN D(op.kind, src, kernel, op.anchor,
                               c[1] - op.position[1], c[2] - op.position[2])
                        ELSE f]_vars

\* C21 witness: a 2 x 2 source drawn at (1, 2) of a destination filled with
\* 200: four stores, a pixel of the box that is not 200 and a pixel outside
\* it that still is
C21_Witness ==
    /\ \E kind \in {"dilation", "erosion"} : Drawn(kind)
    /\ op.position = <<1, 2>> /\ src.width = 2 /\ src.height = 2
    /\ Len(stores) = 4 /\ stores[4] = <<2, 3>>
    /\ At(dst, 0, 0) = 200 /\ At(dst, 3, 3) = 200
    /\ At(dst, 1, 2) # 200

\* the methods the claim lists as resetting the layout
ResetCalls ==
    {"with_settings", "with_position", "with_width", "with_height", "with_wrap",
     "with_horizontal_align", "with_vertical_align", "with_line_height", "centered"}

\* the index in tcalls of the last resetting call, 0 when there is none
LastReset ==
    LET S == {n \in 1..Len(tcalls) : tcalls[n][1] \in ResetCalls}
    IN  IF S = {} THEN 0 ELSE SetMax(S)

\* the span data of a push_text / push_image call
DataOfPush(c) ==
    IF c[1] = "push_text" THEN <<"Text", c[2].fill, c[2].overlay>>
    ELSE <<"InlineImg", c[2].image>>

IsPush(c) == c[1] \in {"push_text", "push_image"}

\* the span data pushed by the calls n of tcalls with from < n <= upto, in order
PushedBetween(from, upto) ==
    LET kept == SelectSeq(SubSeq(tcalls, from + 1, upto), IsPush)
    IN  [n \in 1..Len(kept) |-> DataOfPush(kept[n])]

\* C22: after any sequence of calls the layout holds exactly the segments
\* and inline images pushed after the last call of a resetting method (those
\* pushed before it are discarded, with_anchor discards nothing), and a draw
\* renders exactly the spans the layout held when it was called.
C22_SettingsResetTheLayout ==
    /\ [n \in 1..Len(text.layout.spans) |-> text.layout.spans[n].user_data]
          = PushedBetween(LastReset, Len(tcalls))
    /\ (tcalls # << >> /\ tcalls[Len(tcalls)][1] = "draw") =>
          rendered = PushedBetween(LastReset, Len(tcalls))

\* C22 witness: a segment pushed, a resetting call, with_anchor or a push,
\* then a draw that renders one inline image and not the first segment
C22_Witness ==
    /\ Len(tcalls) = 4
    /\ tcalls[1][1] = "push_text"
    /\ tcalls[2][1] \in ResetCalls
    /\ tcalls[3][1] = "push_image"
    /\ tcalls[4][1] = "draw"
    /\ Len(rendered) = 1 /\ rendered[1][1] = "InlineImg"

\* C23: with an odd-sized kernel whose centre cell has weight 1.0 and the
\* default anchor, Dilation::draw writes at position + (j, i) a value greater
\* than or equal to source[j, i], for every source coordinate; and the
\* odd-sized kernels of from_shape (Rect, Cross, Ellipse, and EllipseAa of
\* size >= 3) have a centre cell of weight 1.0.
C23_DilationIsExtensive ==
    /\ \A shape \in Shapes, d \in OddDims :
          (/\ Built(shape, d[1], d[2])
           /\ shape = "EllipseAa" => (d[1] >= 3 /\ d[2] >= 3))
          => KAt(kernel, d[1] \div 2, d[2] \div 2) = One
    /\ (/\ Drawn("dilation") /\ op.anchor = DefaultAnchor
        /\ kernel.width % 2 = 1 /\ kernel.height % 2 = 1
        /\ KAt(kernel, kernel.width \div 2, kernel.height \div 2) = One)
       => \A c \in Cells(src.width, src.height) :
              Written(c[1], c[2]) >= At(src, c[1], c[2])

\* C23 witness: a dilation by a 5 x 5 kernel with a zero corner (an ellipse)
\* of a 3 x 2 source whose only non-zero pixel is 100, drawn at (1, 2), that
\* kept the 100 and raised a neutral pixel
C23_Witness ==
    /\ Drawn("dilation") /\ op.position = <<1, 2>>
    /\ kernel.width = 5 /\ kernel.height = 5 /\ KAt(kernel, 0, 0) = 0
    /\ src.width = 3 /\ src.height = 2
    /\ \E c \in Cells(3, 2) :
          /\ At(src, c[1], c[2]) = 100 /\ Written(c[1], c[2]) = 100
    /\ \E c \in Cells(3, 2) :
          /\ At(src, c[1], c[2]) = 0 /\ Written(c[1], c[2]) > 0

====
